---- MODULE Spec2Model ----
(***************************************************************************)
(* cargo-teensy (rusty_loader): the firmware image loaders of src/lib.rs   *)
(* and the device session / flashing protocol engine of src/usb.rs.        *)
(*                                                                         *)
(* Spec        the Device Session: program() and boot() on a connected     *)
(*             Teensy, one step of the code per action.                    *)
(* SpecFrames  the frame construction of program() over every block        *)
(*             address of every MCU of the registry.                       *)
(* SpecIhex    ihex_to_bytes, one record per step.                         *)
(* SpecPair    ihex_to_bytes and elf32_to_bytes on the two renderings of   *)
(*             one program.                                                *)
(***************************************************************************)
EXTENDS Integers, Sequences, FiniteSets, TLC

VARIABLES
    teensy,     \* usb.rs Teensy: [code_size, block_size, header_size]
    binary,     \* the image handed to program()
    pc,         \* position of the session's caller / of program()'s loop
    idx,        \* program(): number of (addr, chunk) pairs already taken from the zip
    buf,        \* program(): the frame buffer, reused from block to block
    log,        \* what the session did: feedback calls and transport writes, in order
    returns,    \* what each finished program()/boot() call returned, in call order
    calls,      \* number of program()/boot() calls made on the session
    \* frame construction alone
    fmcu,       \* the descriptor of the session
    fnext,      \* the address of the next block of the loop
    fbuf,       \* the frame buffer, reused from block to block
    \* lib.rs ihex_to_bytes
    mcu,        \* the target descriptor handed to the decoders
    recs,       \* the record sequence
    ri,         \* index of the record the loop is at
    base_address,
    bytes,
    len,
    ires,       \* <<"running">>, or what ihex_to_bytes returned
    \* lib.rs elf32_to_bytes
    elf,        \* the parsed ELF32: section headers with contents, program headers
    sections,   \* the selected sections, with their load addresses
    si,         \* index of the section the copy loop is at
    data,
    elf_len,
    eres,       \* <<"start">>, <<"copy">>, or what elf32_to_bytes returned
    \* usb.rs program(), for an image of code_size bytes
    fres,       \* <<"entry">>, <<"loop">>, or what program() returned
    \* lib.rs parse_mcu, supported_mcus
    arg,        \* the name handed to parse_mcu
    parsed,     \* <<"pending">>, or what parse_mcu returned
    names,      \* the names supported_mcus has collected
    ni,         \* position of the chained iterator
    \* lib.rs load_file
    hint,       \* the FileHint
    file,       \* what the file system and the two parsers make of file_path
    lpc,        \* where load_file stands
    tried,      \* the decoders load_file has attempted, in order
    lres,       \* <<"pending">>, or how load_file ended
    \* main.rs main
    mpc,        \* where main stands, or how the process ended
    wait_for_device,
    boot_only,
    no_reboot,
    has_binary, \* binary is Some(..)
    waited,
    conns,      \* the results of the connect() calls, in order
    released,   \* how many times the session's device handle was released
    \* usb/libusb.rs and usb/windows.rs write, on one sequence of transfer outcomes
    xtimeout,   \* the timeout handed to write(), in ticks of 10 ms
    outcomes,   \* what the transfer attempts do, attempt by attempt
    lpos,       \* libusb: index of the next attempt
    lnow,       \* libusb: begin.elapsed(), in ticks
    lret,       \* libusb: <<"running">>, or what write() returned
    lblocked,   \* libusb: inside a write_control call that has no time limit
    wpos,       \* Windows: index of the next attempt
    wnow,       \* Windows: begin.elapsed(), in ticks
    wret        \* Windows: <<"running">>, or what write() returned

sessVars == <<teensy, binary, pc, idx, buf, log, returns, calls>>
frameVars == <<fmcu, fnext, fbuf, fres>>
ihexVars == <<mcu, recs, ri, base_address, bytes, len, ires>>
elfVars == <<elf, sections, si, data, elf_len, eres>>

regVars == <<arg, parsed, names, ni>>
loadVars == <<hint, file, lpc, tried, lres>>
mainVars == <<mpc, wait_for_device, boot_only, no_reboot, has_binary, waited, conns,
              released>>
xferVars == <<xtimeout, outcomes, lpos, lnow, lret, lblocked, wpos, wnow, wret>>
restVars == <<regVars, loadVars, mainVars, xferVars>>

vars == <<sessVars, frameVars, ihexVars, elfVars, restVars>>

----------------------------------------------------------------------------
(* Bounds of the model *)

\* blocks in an image handed to program()
MaxBlocks == 2
\* bytes an image may carry beyond its last whole block
MaxRemainder == 1
\* program()/boot() calls on one session
MaxCalls == 2
\* records in an Intel HEX record sequence
MaxRecs == 3
\* loadable segments of a program rendered as Intel HEX and as ELF32
MaxSegs == 2
\* connect() attempts of one run of the command line tool
MaxConnects == 3
\* the longest timeout handed to a backend's write(), in ticks of 10 ms
MaxTicks == 3

----------------------------------------------------------------------------
(* src/lib.rs: the MCU registry *)

Mcu(cs, bs) == [code_size |-> cs, block_size |-> bs]

\* the table with one code size mistyped
MCUSMistyped ==
    << [name |-> "at90usb162",  mcu |-> Mcu(15872, 128)],
       [name |-> "atmega32u4",  mcu |-> Mcu(32265, 128)],
       [name |-> "at90usb646",  mcu |-> Mcu(64512, 256)],
       [name |-> "at90usb1286", mcu |-> Mcu(130048, 256)],
       [name |-> "mkl26z64",    mcu |-> Mcu(63488, 512)],
       [name |-> "mk20dx128",   mcu |-> Mcu(131072, 1024)],
       [name |-> "mk20dx256",   mcu |-> Mcu(262144, 1024)],
       [name |-> "mk64fx512",   mcu |-> Mcu(524288, 1024)],
       [name |-> "mk66fx1m0",   mcu |-> Mcu(1048576, 1024)] >>

MCUS ==
    << [name |-> "at90usb162",  mcu |-> Mcu(15872, 128)],
       [name |-> "atmega32u4",  mcu |-> Mcu(32256, 128)],
       [name |-> "at90usb646",  mcu |-> Mcu(64512, 256)],
       [name |-> "at90usb1286", mcu |-> Mcu(130048, 256)],
       [name |-> "mkl26z64",    mcu |-> Mcu(63488, 512)],
       [name |-> "mk20dx128",   mcu |-> Mcu(131072, 1024)],
       [name |-> "mk20dx256",   mcu |-> Mcu(262144, 1024)],
       [name |-> "mk64fx512",   mcu |-> Mcu(524288, 1024)],
       [name |-> "mk66fx1m0",   mcu |-> Mcu(1048576, 1024)] >>

RegistryMcus == {MCUS[i].mcu : i \in 1..Len(MCUS)}

----------------------------------------------------------------------------
(* Bytes and byte sequences *)

Min(a, b) == IF a < b THEN a ELSE b

\* `x as u8`
AsU8(x) == x % 256

\* `x >> n` on usize
Shr(x, n) == x \div (2 ^ n)

Fill(n, b) == [i \in 1..n |-> b]

\* iter().all(|&x| x == 0xFF)
AllFF(chunk) == \A i \in 1..Len(chunk) : chunk[i] = 255

\* Vec::resize(n, v): truncate to n, or extend with v up to n
Resize(v, n, b) == [i \in 1..n |-> IF i <= Len(v) THEN v[i] ELSE b]

----------------------------------------------------------------------------
(* The inputs of the Device Session *)

\* Mcu is a public struct: connect() takes any descriptor, from the registry or not.
SessionMcus ==
    { Mcu(2, 2), Mcu(4, 2), Mcu(900, 300),
      MCUS[1].mcu, MCUS[4].mcu, MCUS[5].mcu }

\* the contents a block of an image may have: erased, or erased but for its last byte
BlockPatterns(bs) ==
    { Fill(bs, 255),
      [i \in 1..bs |-> IF i = bs THEN 42 ELSE 255] }

Flatten(blocks, bs, r) ==
    [i \in 1..(Len(blocks) * bs + r) |->
        IF i <= Len(blocks) * bs
        THEN blocks[((i - 1) \div bs) + 1][((i - 1) % bs) + 1]
        ELSE 7]

Images(bs) ==
    UNION { { Flatten(blocks, bs, r) : blocks \in [1..n -> BlockPatterns(bs)] } :
            n \in 0..MaxBlocks, r \in 0..Min(MaxRemainder, bs - 1) }

----------------------------------------------------------------------------
(* src/usb.rs: Teensy *)

HeaderSizeFor(bs) == IF bs = 512 \/ bs = 1024 THEN 64 ELSE 2

\* Teensy::connect, the transport's connect having succeeded
Connect(m) ==
    [code_size |-> m.code_size,
     block_size |-> m.block_size,
     header_size |-> HeaderSizeFor(m.block_size)]

\* write_size without the header
write_size_block_only == teensy.block_size

\* Teensy::write_size
write_size == teensy.block_size + teensy.header_size

\* what the transport's write() may return
WriteResults == {"Ok", "Timeout", "System"}

\* binary.chunks_exact(block_size): the whole chunks, and what is left over
NumChunks == Len(binary) \div teensy.block_size
Remainder == Len(binary) % teensy.block_size
Chunk(k) == SubSeq(binary, k * teensy.block_size + 1, (k + 1) * teensy.block_size)

\* (0..code_size).step_by(block_size): the number of addresses it yields
NumAddrs ==
    (teensy.code_size + teensy.block_size - 1) \div teensy.block_size

\* the loop running over every block of the image
ZipLenChunks == NumChunks

\* the zip of the two ends with the shorter one
ZipLen == Min(NumAddrs, NumChunks)

\* the remainder check left out
HasRemainderIgnored == FALSE

HasRemainder == Remainder # 0

\* the skip rule without its exception for address 0
ShouldSkipAnyAddr(addr, chunk) == AllFF(chunk)

\* the skip rule of the loop
ShouldSkip(addr, chunk) == addr # 0 /\ AllFF(chunk)

\* the two-byte header as a plain little-endian 16-bit address, whatever code_size
Header2Plain(code_size, addr) == << AsU8(addr), AsU8(Shr(addr, 8)) >>

\* the two-byte header of the frame at addr
Header2(code_size, addr) ==
    IF code_size < 65536
    THEN << AsU8(addr), AsU8(Shr(addr, 8)) >>
    ELSE << AsU8(Shr(addr, 8)), AsU8(Shr(addr, 16)) >>

\* the 64-byte header carrying the low 16 bits of the address only
Header3Low(addr) == << AsU8(addr), AsU8(Shr(addr, 8)), 0 >>

\* the first three bytes of the 64-byte header of the frame at addr
Header3(addr) == << AsU8(addr), AsU8(Shr(addr, 8)), AsU8(Shr(addr, 16)) >>

\* the frame the loop body builds in buf for (addr, chunk)
BuildFrame(b, block_size, code_size, addr, chunk) ==
    IF block_size <= 256
    THEN LET r == Resize(b, 2, 0)
             h == Header2(code_size, addr)
         IN  [i \in 1..2 |-> h[i]] \o chunk
    ELSE LET r == Resize(b, 64, 0)
             h == Header3(addr)
         IN  [i \in 1..64 |-> IF i <= 3 THEN h[i] ELSE r[i]] \o chunk

\* every write with the short timeout
WriteTimeoutShort(addr) == 500

\* the timeout of the write of the block at addr, in ms
WriteTimeout(addr) == IF addr = 0 THEN 5000 ELSE 500

\* the buffer boot() builds
BootFrame(n) == [i \in 1..n |-> IF i <= 3 THEN 255 ELSE 0]

\* an entry of the log: a feedback(addr) call, or a transport write and its outcome
CbEvent(a) ==
    [kind |-> "feedback", call |-> calls, addr |-> a,
     buf |-> << >>, timeout |-> 0, res |-> "Ok"]
WriteEvent(k, c, a, b, t, r) ==
    [kind |-> k, call |-> c, addr |-> a, buf |-> b, timeout |-> t, res |-> r]

\* a call's return value
Return(f, v) == [fn |-> f, ret |-> v]

\* program(): entry, up to the loop
ProgramEntry ==
    /\ pc = "idle"
    /\ calls < MaxCalls
    /\ calls' = calls + 1
    /\ IF HasRemainder
       THEN /\ returns' = Append(returns, Return("program", <<"BinaryRemainder">>))
            /\ pc' = "idle"
            /\ UNCHANGED <<idx, buf>>
       ELSE /\ pc' = "loop"
            /\ idx' = 0
            /\ buf' = << >>
            /\ UNCHANGED returns
    /\ UNCHANGED <<teensy, binary, log>>

\* a program() call on the session
ProgramCall ==
    /\ ProgramEntry
    /\ UNCHANGED <<frameVars, ihexVars, elfVars, restVars>>

\* the head of one iteration with feedback called ahead of the skip rule
ProgramStepFeedbackFirst ==
    /\ pc = "loop"
    /\ IF idx >= ZipLen
       THEN /\ returns' = Append(returns, Return("program", <<"Ok">>))
            /\ pc' = "idle"
            /\ UNCHANGED <<idx, log>>
       ELSE LET addr == idx * teensy.block_size
                chunk == Chunk(idx)
            IN  /\ log' = Append(log, CbEvent(addr))
                /\ IF ShouldSkip(addr, chunk)
                   THEN /\ idx' = idx + 1
                        /\ UNCHANGED <<pc, returns>>
                   ELSE /\ pc' = "frame"
                        /\ UNCHANGED <<idx, returns>>
    /\ UNCHANGED <<teensy, binary, buf, calls>>
    /\ UNCHANGED <<frameVars, ihexVars, elfVars, restVars>>

\* program(): the head of one iteration: next pair of the zip, skip rule, feedback
ProgramStep ==
    /\ pc = "loop"
    /\ IF idx >= ZipLen
       THEN /\ returns' = Append(returns, Return("program", <<"Ok">>))
            /\ pc' = "idle"
            /\ UNCHANGED <<idx, log>>
       ELSE LET addr == idx * teensy.block_size
                chunk == Chunk(idx)
            IN  IF ShouldSkip(addr, chunk)
                THEN /\ idx' = idx + 1
                     /\ UNCHANGED <<pc, log, returns>>
                ELSE /\ log' = Append(log, CbEvent(addr))
                     /\ pc' = "frame"
                     /\ UNCHANGED <<idx, returns>>
    /\ UNCHANGED <<teensy, binary, buf, calls>>
    /\ UNCHANGED <<frameVars, ihexVars, elfVars, restVars>>

\* program(): the frame of the block is built in buf
ProgramFrame ==
    /\ pc = "frame"
    /\ buf' = BuildFrame(buf, teensy.block_size, teensy.code_size,
                         idx * teensy.block_size, Chunk(idx))
    /\ pc' = "write"
    /\ UNCHANGED <<teensy, binary, idx, log, returns, calls>>
    /\ UNCHANGED <<frameVars, ihexVars, elfVars, restVars>>

\* the write with its error dropped instead of returned
ProgramWriteIgnoresError ==
    /\ pc = "write"
    /\ \E r \in WriteResults :
         LET addr == idx * teensy.block_size
         IN  /\ log' = Append(log, WriteEvent("data", calls, addr, buf, WriteTimeout(addr), r))
             /\ idx' = idx + 1
             /\ pc' = "loop"
             /\ UNCHANGED returns
    /\ UNCHANGED <<teensy, binary, buf, calls>>
    /\ UNCHANGED <<frameVars, ihexVars, elfVars, restVars>>

\* program(): self.write(&buf, timeout)?
ProgramWrite ==
    /\ pc = "write"
    /\ \E r \in WriteResults :
         LET addr == idx * teensy.block_size
         IN  /\ log' = Append(log, WriteEvent("data", calls, addr, buf, WriteTimeout(addr), r))
             /\ IF r = "Ok"
                THEN /\ idx' = idx + 1
                     /\ pc' = "loop"
                     /\ UNCHANGED returns
                ELSE /\ returns' = Append(returns, Return("program", <<"WriteError", r>>))
                     /\ pc' = "idle"
                     /\ UNCHANGED idx
    /\ UNCHANGED <<teensy, binary, buf, calls>>
    /\ UNCHANGED <<frameVars, ihexVars, elfVars, restVars>>

\* boot()
BootEntry ==
    /\ pc = "idle"
    /\ calls < MaxCalls
    /\ calls' = calls + 1
    /\ \E r \in WriteResults :
         /\ log' = Append(log, WriteEvent("boot", calls + 1, 0, BootFrame(write_size), 500, r))
         /\ returns' = Append(returns,
                Return("boot", IF r = "Ok" THEN <<"Ok">> ELSE <<"WriteError", r>>))
    /\ UNCHANGED <<teensy, binary, pc, idx, buf>>

\* a boot() call on the session
Boot ==
    /\ BootEntry
    /\ UNCHANGED <<frameVars, ihexVars, elfVars, restVars>>

\* the variables of a part of the program a specification leaves out
NoSession ==
    /\ teensy = Connect(Mcu(4, 2))
    /\ binary = << >>
    /\ pc = "idle"
    /\ idx = 0
    /\ buf = << >>
    /\ log = << >>
    /\ returns = << >>
    /\ calls = 0

NoFrames ==
    /\ fmcu = Mcu(4, 2)
    /\ fnext = 0
    /\ fbuf = << >>
    /\ fres = <<"entry">>

NoIhex ==
    /\ mcu = Mcu(4, 2)
    /\ recs = << >>
    /\ ri = 1
    /\ base_address = 0
    /\ bytes = << >>
    /\ len = 0
    /\ ires = <<"running">>

NoElf ==
    /\ elf = [sections |-> << >>, phdrs |-> << >>]
    /\ sections = << >>
    /\ si = 1
    /\ data = << >>
    /\ elf_len = 0
    /\ eres = <<"start">>

NoRegistry ==
    /\ arg = ""
    /\ parsed = <<"pending">>
    /\ names = << >>
    /\ ni = 1

NoLoad ==
    /\ hint = "Any"
    /\ file = [io |-> "ok", elf |-> <<"Err">>, ihex |-> <<"Err">>]
    /\ lpc = "open"
    /\ tried = << >>
    /\ lres = <<"pending">>

NoMain ==
    /\ mpc = "load"
    /\ wait_for_device = FALSE
    /\ boot_only = FALSE
    /\ no_reboot = FALSE
    /\ has_binary = FALSE
    /\ waited = FALSE
    /\ conns = << >>
    /\ released = 0

NoXfer ==
    /\ xtimeout = 0
    /\ outcomes = << >>
    /\ lpos = 1
    /\ lnow = 0
    /\ lret = <<"running">>
    /\ lblocked = FALSE
    /\ wpos = 1
    /\ wnow = 0
    /\ wret = <<"running">>

NoRest == NoRegistry /\ NoLoad /\ NoMain /\ NoXfer

Init ==
    /\ teensy \in {Connect(m) : m \in SessionMcus}
    /\ binary \in Images(teensy.block_size)
    /\ pc = "idle"
    /\ idx = 0
    /\ buf = << >>
    /\ log = << >>
    /\ returns = << >>
    /\ calls = 0
    /\ NoFrames /\ NoIhex /\ NoElf /\ NoRest

Next ==
    \/ ProgramCall
    \/ ProgramStep
    \/ ProgramFrame
    \/ ProgramWrite
    \/ Boot

Spec == Init /\ [][Next]_vars

----------------------------------------------------------------------------
(* src/usb.rs: the frames program() builds, block address by block address, for
   an image of code_size bytes none of whose blocks is skipped and whose writes
   all succeed *)

\* the block of such an image at addr
FramePayload(m, addr) == Fill(m.block_size, (addr \div m.block_size) % 255)

\* the entry of program(): the image has a remainder when code_size is not a
\* whole number of blocks
FrameCall ==
    /\ fres = <<"entry">>
    /\ fres' = IF fmcu.code_size % fmcu.block_size # 0
               THEN <<"BinaryRemainder">>
               ELSE <<"loop">>
    /\ UNCHANGED <<fmcu, fnext, fbuf>>
    /\ UNCHANGED <<sessVars, ihexVars, elfVars, restVars>>

\* one iteration of the loop of program(): the frame of the block at fnext
FrameStep ==
    /\ fres = <<"loop">>
    /\ fnext < fmcu.code_size
    /\ fbuf' = BuildFrame(fbuf, fmcu.block_size, fmcu.code_size,
                          fnext, FramePayload(fmcu, fnext))
    /\ fnext' = fnext + fmcu.block_size
    /\ UNCHANGED <<fmcu, fres>>
    /\ UNCHANGED <<sessVars, ihexVars, elfVars, restVars>>

\* the loop is over: Ok(())
FrameReturn ==
    /\ fres = <<"loop">>
    /\ fnext >= fmcu.code_size
    /\ fres' = <<"Ok">>
    /\ UNCHANGED <<fmcu, fnext, fbuf>>
    /\ UNCHANGED <<sessVars, ihexVars, elfVars, restVars>>

FramesInit ==
    /\ fmcu \in RegistryMcus
    /\ fnext = 0
    /\ fbuf = << >>
    /\ fres = <<"entry">>
    /\ NoSession /\ NoIhex /\ NoElf /\ NoRest

FramesNext ==
    \/ FrameCall
    \/ FrameStep
    \/ FrameReturn

SpecFrames == FramesInit /\ [][FramesNext]_vars

----------------------------------------------------------------------------
(* src/lib.rs: ihex_to_bytes *)

\* ihex::record::Record
Data(o, v) == [type |-> "Data", offset |-> o, value |-> v, base |-> 0]
ExtendedSegmentAddress(b) ==
    [type |-> "ExtendedSegmentAddress", offset |-> 0, value |-> << >>, base |-> b]
ExtendedLinearAddress(b) ==
    [type |-> "ExtendedLinearAddress", offset |-> 0, value |-> << >>, base |-> b]
EndOfFile == [type |-> "EndOfFile", offset |-> 0, value |-> << >>, base |-> 0]
StartLinearAddress ==
    [type |-> "StartLinearAddress", offset |-> 0, value |-> << >>, base |-> 0]
StartSegmentAddress ==
    [type |-> "StartSegmentAddress", offset |-> 0, value |-> << >>, base |-> 0]

\* the record sequences handed to the decoder
IhexMcus == { Mcu(6, 2), Mcu(22, 2) }

IhexRecords ==
    { Data(o, v) : o \in {0, 4, 5}, v \in { <<17>>, <<34, 255>> } }
    \cup { ExtendedSegmentAddress(0), ExtendedSegmentAddress(1),
           ExtendedLinearAddress(0), ExtendedLinearAddress(1),
           EndOfFile, StartLinearAddress, StartSegmentAddress }

RecSeqs == UNION { [1..n -> IhexRecords] : n \in 0..MaxRecs }

\* `x << n` on usize
Shl(x, n) == x * (2 ^ n)

\* the bound check with > in place of >=
TooHighStrict(end_addr, code_size) == end_addr > code_size

\* the bound check of a data record
TooHigh(end_addr, code_size) == end_addr >= code_size

IhexAt(t) ==
    /\ ires = <<"running">>
    /\ ri <= Len(recs)
    /\ recs[ri].type = t

\* IHexRecord::Data { offset, value }
IhexData ==
    /\ IhexAt("Data")
    /\ LET rec == recs[ri]
           start == base_address + rec.offset
           end_addr == start + Len(rec.value)
       IN  IF TooHigh(end_addr, mcu.code_size)
           THEN /\ ires' = <<"AddressTooHigh", end_addr>>
                /\ UNCHANGED <<ri, bytes, len>>
           ELSE /\ len' = len + Len(rec.value)
                /\ bytes' = [a \in 1..Len(bytes) |->
                                IF a - 1 >= start /\ a - 1 < end_addr
                                THEN rec.value[a - start]
                                ELSE bytes[a]]
                /\ ri' = ri + 1
                /\ UNCHANGED ires
    /\ UNCHANGED <<mcu, recs, base_address>>
    /\ UNCHANGED <<sessVars, frameVars, elfVars, restVars>>

\* a segment record added to the base address in force
IhexSegmentAdds ==
    /\ IhexAt("ExtendedSegmentAddress")
    /\ base_address' = base_address + Shl(recs[ri].base, 4)
    /\ ri' = ri + 1
    /\ UNCHANGED <<mcu, recs, bytes, len, ires>>
    /\ UNCHANGED <<sessVars, frameVars, elfVars, restVars>>

\* IHexRecord::ExtendedSegmentAddress(base)
IhexSegment ==
    /\ IhexAt("ExtendedSegmentAddress")
    /\ base_address' = Shl(recs[ri].base, 4)
    /\ ri' = ri + 1
    /\ UNCHANGED <<mcu, recs, bytes, len, ires>>
    /\ UNCHANGED <<sessVars, frameVars, elfVars, restVars>>

\* IHexRecord::ExtendedLinearAddress(base)
IhexLinear ==
    /\ IhexAt("ExtendedLinearAddress")
    /\ base_address' = Shl(recs[ri].base, 16)
    /\ ri' = ri + 1
    /\ UNCHANGED <<mcu, recs, bytes, len, ires>>
    /\ UNCHANGED <<sessVars, frameVars, elfVars, restVars>>

\* End-Of-File taken as one more record to pass over
IhexEofContinues ==
    /\ IhexAt("EndOfFile")
    /\ ri' = ri + 1
    /\ UNCHANGED <<mcu, recs, base_address, bytes, len, ires>>
    /\ UNCHANGED <<sessVars, frameVars, elfVars, restVars>>

\* IHexRecord::EndOfFile => break, and the Ok after the loop
IhexEof ==
    /\ IhexAt("EndOfFile")
    /\ ires' = <<"Ok">>
    /\ UNCHANGED <<mcu, recs, ri, base_address, bytes, len>>
    /\ UNCHANGED <<sessVars, frameVars, elfVars, restVars>>

\* IHexRecord::StartLinearAddress(_) | IHexRecord::StartSegmentAddress { .. } => {}
IhexStart ==
    /\ \/ IhexAt("StartLinearAddress")
       \/ IhexAt("StartSegmentAddress")
    /\ ri' = ri + 1
    /\ UNCHANGED <<mcu, recs, base_address, bytes, len, ires>>
    /\ UNCHANGED <<sessVars, frameVars, elfVars, restVars>>

\* the records are exhausted: Ok((bytes, len))
IhexEnd ==
    /\ ires = <<"running">>
    /\ ri > Len(recs)
    /\ ires' = <<"Ok">>
    /\ UNCHANGED <<mcu, recs, ri, base_address, bytes, len>>
    /\ UNCHANGED <<sessVars, frameVars, elfVars, restVars>>

\* the locals of ihex_to_bytes before its loop
IhexEntry ==
    /\ ri = 1
    /\ base_address = 0
    /\ bytes = Fill(mcu.code_size, 255)
    /\ len = 0
    /\ ires = <<"running">>

IhexInit ==
    /\ mcu \in IhexMcus
    /\ recs \in RecSeqs
    /\ IhexEntry
    /\ NoSession /\ NoFrames /\ NoElf /\ NoRest

IhexNext ==
    \/ IhexData
    \/ IhexSegment
    \/ IhexLinear
    \/ IhexEof
    \/ IhexStart
    \/ IhexEnd

SpecIhex == IhexInit /\ [][IhexNext]_vars

----------------------------------------------------------------------------
(* src/lib.rs: Section::new and elf32_to_bytes *)

\* a section header with its contents, and a program header
Shdr(t, alloc, addr, seg) ==
    [sh_type |-> t, alloc |-> alloc, addr |-> addr, size |-> Len(seg), segment |-> seg]
Phdr(t, vaddr, paddr, memsz) ==
    [ph_type |-> t, vaddr |-> vaddr, paddr |-> paddr, memsz |-> memsz]

\* phdrs.iter().find(..): the index of the first program header containing the section
Containing(shdr, phdrs) ==
    { k \in 1..Len(phdrs) :
        /\ shdr.addr >= phdrs[k].vaddr
        /\ shdr.addr + shdr.size <= phdrs[k].vaddr + phdrs[k].memsz }

SetMin(S) == CHOOSE x \in S : \A y \in S : x <= y
SetMax(S) == CHOOSE x \in S : \A y \in S : x >= y

\* a section taken at its own address, whatever the program headers
SectionNewUnmapped(sec, phdrs) ==
    [shdr |-> sec, load_addr |-> sec.addr, size |-> sec.size]

\* Section::new
SectionNew(sec, phdrs) ==
    IF Containing(sec, phdrs) # {}
    THEN LET phdr == phdrs[SetMin(Containing(sec, phdrs))]
         IN  [shdr |-> sec,
              load_addr |-> sec.addr - phdr.vaddr + phdr.paddr,
              size |-> sec.size]
    ELSE [shdr |-> sec, load_addr |-> sec.addr, size |-> sec.size]

\* the filter of elf32_to_bytes
Loadable(sec) == sec.sh_type = "SHT_PROGBITS" /\ sec.alloc

\* section_header_iter().filter(..).map(..).collect()
SelectSections(e) ==
    LET keep == SelectSeq(e.sections, Loadable)
    IN  [k \in 1..Len(keep) |-> SectionNew(keep[k], e.phdrs)]

base_addr(secs) == SetMin({ secs[k].load_addr : k \in 1..Len(secs) })
end_addr(secs) == SetMax({ secs[k].load_addr + secs[k].size : k \in 1..Len(secs) })

\* elf32_to_bytes up to its copy loop; min()/max() of no section unwrap None
ElfSelect ==
    /\ eres = <<"start">>
    /\ LET secs == SelectSections(elf)
       IN  /\ sections' = secs
           /\ IF Len(secs) = 0
              THEN /\ eres' = <<"panic">>
                   /\ UNCHANGED <<data, elf_len, si>>
              ELSE /\ data' = Fill(end_addr(secs) - base_addr(secs), 0)
                   /\ elf_len' = 0
                   /\ si' = 1
                   /\ eres' = <<"copy">>
    /\ UNCHANGED elf
    /\ UNCHANGED <<sessVars, frameVars, ihexVars, restVars>>

\* one iteration of the copy loop
ElfCopy ==
    /\ eres = <<"copy">>
    /\ si <= Len(sections)
    /\ LET section == sections[si]
           start == section.load_addr - base_addr(sections)
           end == start + section.size
       IN  /\ elf_len' = elf_len + (end - start)
           /\ data' = [a \in 1..Len(data) |->
                          IF a - 1 >= start /\ a - 1 < end
                          THEN section.shdr.segment[a - start]
                          ELSE data[a]]
    /\ si' = si + 1
    /\ UNCHANGED <<elf, sections, eres>>
    /\ UNCHANGED <<sessVars, frameVars, ihexVars, restVars>>

\* Ok((data, len))
ElfFinish ==
    /\ eres = <<"copy">>
    /\ si > Len(sections)
    /\ eres' = <<"Ok">>
    /\ UNCHANGED <<elf, sections, si, data, elf_len>>
    /\ UNCHANGED <<sessVars, frameVars, ihexVars, restVars>>

----------------------------------------------------------------------------
(* tests/ihex_same_as_elf.rs: one program as an Intel HEX file and as an ELF32 *)

\* a program: loadable segments, each an address and its bytes, in address order
\* and apart from one another
PairMcus == { Mcu(8, 2) }
Segment(a, b) == [addr |-> a, bytes |-> b]
Segments == { Segment(a, b) : a \in {0, 2, 4}, b \in { <<17>>, <<34, 51>> } }
Programs ==
    UNION { { p \in [1..n -> Segments] :
                \A k \in 1..(n - 1) : p[k].addr + Len(p[k].bytes) <= p[k + 1].addr } :
            n \in 1..MaxSegs }

\* the program as Intel HEX records, the way linkers lay the file out
AsIhex(p, style) ==
    LET body == [k \in 1..Len(p) |-> Data(p[k].addr, p[k].bytes)]
    IN  IF style = "linear"
        THEN <<ExtendedLinearAddress(0)>> \o body \o <<StartLinearAddress, EndOfFile>>
        ELSE IF style = "segment"
        THEN <<ExtendedSegmentAddress(0)>> \o body \o <<StartSegmentAddress, EndOfFile>>
        ELSE body

\* the program as an ELF32: one PROGBITS/ALLOC section per segment, a .bss and a
\* .comment beside them; linked at its load addresses with no program header, or
\* linked at an offset that one LOAD program header maps back
AsElf(p, layout, code_size) ==
    LET off == IF layout = "mapped" THEN 16 ELSE 0
        text == [k \in 1..Len(p) |-> Shdr("SHT_PROGBITS", TRUE, p[k].addr + off, p[k].bytes)]
        rest == << Shdr("SHT_NOBITS", TRUE, off + code_size, << >>),
                   Shdr("SHT_PROGBITS", FALSE, 0, <<71, 67, 67>>) >>
    IN  [sections |-> text \o rest,
         phdrs |-> IF layout = "mapped"
                   THEN << Phdr("LOAD", off, 0, code_size) >>
                   ELSE << >>]

ElfEntry ==
    /\ sections = << >>
    /\ si = 1
    /\ data = << >>
    /\ elf_len = 0
    /\ eres = <<"start">>

PairInit ==
    /\ mcu \in PairMcus
    /\ \E p \in Programs :
         /\ \E style \in {"linear", "segment", "bare"} : recs = AsIhex(p, style)
         /\ \E layout \in {"flat", "mapped"} : elf = AsElf(p, layout, mcu.code_size)
    /\ IhexEntry
    /\ ElfEntry
    /\ NoSession /\ NoFrames /\ NoRest

PairNext ==
    \/ IhexData
    \/ IhexSegment
    \/ IhexLinear
    \/ IhexEof
    \/ IhexStart
    \/ IhexEnd
    \/ ElfSelect
    \/ ElfCopy
    \/ ElfFinish

SpecPair == PairInit /\ [][PairNext]_vars

----------------------------------------------------------------------------
(* src/lib.rs: load_file *)

\* FileHint
FileHints == {"IHEX", "ELF", "Any"}

\* Elf::from_bytes(..) gave Ok(Elf::Elf32(elf)): the header fields load_file reads
Elf32(machine, abi, elftype, shdrs, phdrs) ==
    <<"Elf32", [machine |-> machine, abi |-> abi, elftype |-> elftype,
                sections |-> shdrs, phdrs |-> phdrs]>>

\* the header and program-header checks of load_file
PassesChecks(e) ==
    /\ e.machine = "ARM"
    /\ e.abi = "SystemV"
    /\ e.elftype = "ET_EXEC"
    /\ ~\E k \in 1..Len(e.phdrs) : e.phdrs[k].ph_type \in {"DYNAMIC", "INTERP"}

LoadMcus == { Mcu(8, 2) }

\* section tables: no section, no PROGBITS/ALLOC section, one, two
LoadSections ==
    { << >>,
      << Shdr("SHT_NOBITS", TRUE, 8, << >>), Shdr("SHT_PROGBITS", FALSE, 0, <<71, 67, 67>>) >>,
      << Shdr("SHT_PROGBITS", TRUE, 0, <<17>>), Shdr("SHT_NOBITS", TRUE, 8, << >>) >>,
      << Shdr("SHT_PROGBITS", TRUE, 4, <<34, 51>>), Shdr("SHT_PROGBITS", TRUE, 0, <<17>>) >> }

LoadPhdrs ==
    { << >>,
      << Phdr("LOAD", 0, 0, 8) >>,
      << Phdr("LOAD", 4, 10, 2), Phdr("LOAD", 0, 2, 8) >>,
      << Phdr("LOAD", 4, 6, 1) >>,
      << Phdr("LOAD", 0, 0, 8), Phdr("DYNAMIC", 0, 0, 0) >>,
      << Phdr("INTERP", 0, 0, 0), Phdr("LOAD", 0, 0, 8) >> }

\* files that parse as ELF: the Intel HEX reader fails on them
ElfFiles ==
    { [io |-> "ok", elf |-> Elf32(m, a, t, ss, ps), ihex |-> <<"Err">>] :
        m \in {"ARM", "X86_64"}, a \in {"SystemV", "Linux"},
        t \in {"ET_EXEC", "ET_DYN"}, ss \in LoadSections, ps \in LoadPhdrs }
    \cup { [io |-> "ok", elf |-> <<"Elf64">>, ihex |-> <<"Err">>] }

\* files that parse as Intel HEX records: Elf::from_bytes fails on them
IhexFiles ==
    { [io |-> "ok", elf |-> <<"Err">>, ihex |-> <<"Ok", r>>] :
        r \in { AsIhex(p, style) : p \in Programs, style \in {"linear", "segment", "bare"} }
              \cup { << >>,
                     << Data(6, <<34, 51>>), EndOfFile >>,
                     << Data(0, <<17>>), EndOfFile, Data(7, <<34, 51>>) >> } }

\* files neither parser takes, and files that cannot be opened or read
OtherFiles ==
    { [io |-> io, elf |-> <<"Err">>, ihex |-> <<"Err">>] : io \in {"ok", "open", "read"} }

LoadFiles == ElfFiles \cup IhexFiles \cup OtherFiles

\* File::open and read_to_end
LoadOpen ==
    /\ lpc = "open"
    /\ IF file.io = "open"
       THEN lres' = <<"FailedOpen">> /\ lpc' = "done"
       ELSE IF file.io = "read"
       THEN lres' = <<"FailedRead">> /\ lpc' = "done"
       ELSE lres' = lres /\ lpc' = "elf"
    /\ UNCHANGED <<hint, file, tried>>
    /\ UNCHANGED <<sessVars, frameVars, ihexVars, elfVars, regVars, mainVars, xferVars>>

\* the ELF arm: Elf::from_bytes and the checks, up to the call of elf32_to_bytes
LoadTryElf ==
    /\ lpc = "elf"
    /\ IF hint # "IHEX"
       THEN /\ tried' = Append(tried, "elf")
            /\ IF file.elf[1] = "Elf32" /\ PassesChecks(file.elf[2])
               THEN /\ elf' = [sections |-> file.elf[2].sections,
                               phdrs |-> file.elf[2].phdrs]
                    /\ sections' = << >>
                    /\ si' = 1
                    /\ data' = << >>
                    /\ elf_len' = 0
                    /\ eres' = <<"start">>
                    /\ lpc' = "elf_run"
               ELSE /\ lpc' = "ihex"
                    /\ UNCHANGED elfVars
       ELSE /\ lpc' = "ihex"
            /\ UNCHANGED <<tried, elfVars>>
    /\ UNCHANGED <<hint, file, lres>>
    /\ UNCHANGED <<sessVars, frameVars, ihexVars, regVars, mainVars, xferVars>>

\* elf32_to_bytes(..).ok() is Some: or_else is not run, ok_or gives Ok
LoadElfDone ==
    /\ lpc = "elf_run"
    /\ eres = <<"Ok">>
    /\ lres' = <<"Ok", data, elf_len>>
    /\ lpc' = "done"
    /\ UNCHANGED <<hint, file, tried>>
    /\ UNCHANGED <<sessVars, frameVars, ihexVars, elfVars, regVars, mainVars, xferVars>>

\* elf32_to_bytes panicked: the panic leaves load_file
LoadElfPanic ==
    /\ lpc = "elf_run"
    /\ eres = <<"panic">>
    /\ lres' = <<"panic">>
    /\ lpc' = "done"
    /\ UNCHANGED <<hint, file, tried>>
    /\ UNCHANGED <<sessVars, frameVars, ihexVars, elfVars, regVars, mainVars, xferVars>>

\* the or_else arm: the Intel HEX reader, up to the call of ihex_to_bytes
LoadTryIhex ==
    /\ lpc = "ihex"
    /\ IF hint # "ELF"
       THEN /\ tried' = Append(tried, "ihex")
            /\ IF file.ihex[1] = "Ok"
               THEN /\ recs' = file.ihex[2]
                    /\ ri' = 1
                    /\ base_address' = 0
                    /\ bytes' = Fill(mcu.code_size, 255)
                    /\ len' = 0
                    /\ ires' = <<"running">>
                    /\ lpc' = "ihex_run"
                    /\ UNCHANGED <<mcu, lres>>
               ELSE /\ lres' = <<"NotValidFile">>
                    /\ lpc' = "done"
                    /\ UNCHANGED ihexVars
       ELSE /\ lres' = <<"NotValidFile">>
            /\ lpc' = "done"
            /\ UNCHANGED <<tried, ihexVars>>
    /\ UNCHANGED <<hint, file>>
    /\ UNCHANGED <<sessVars, frameVars, elfVars, regVars, mainVars, xferVars>>

\* ihex_to_bytes returned: Ok(bin) is the result, Err(_) is None and NotValidFile
LoadIhexDone ==
    /\ lpc = "ihex_run"
    /\ ires # <<"running">>
    /\ lres' = IF ires = <<"Ok">> THEN <<"Ok", bytes, len>> ELSE <<"NotValidFile">>
    /\ lpc' = "done"
    /\ UNCHANGED <<hint, file, tried>>
    /\ UNCHANGED <<sessVars, frameVars, ihexVars, elfVars, regVars, mainVars, xferVars>>

LoadInit ==
    /\ hint \in FileHints
    /\ file \in LoadFiles
    /\ lpc = "open"
    /\ tried = << >>
    /\ lres = <<"pending">>
    /\ mcu \in LoadMcus
    /\ recs = << >>
    /\ ri = 1
    /\ base_address = 0
    /\ bytes = << >>
    /\ len = 0
    /\ ires = <<"idle">>
    /\ elf = [sections |-> << >>, phdrs |-> << >>]
    /\ sections = << >>
    /\ si = 1
    /\ data = << >>
    /\ elf_len = 0
    /\ eres = <<"idle">>
    /\ NoSession /\ NoFrames /\ NoRegistry /\ NoMain /\ NoXfer

LoadNext ==
    \/ LoadOpen
    \/ LoadTryElf
    \/ ElfSelect
    \/ ElfCopy
    \/ ElfFinish
    \/ LoadElfDone
    \/ LoadElfPanic
    \/ LoadTryIhex
    \/ IhexData
    \/ IhexSegment
    \/ IhexLinear
    \/ IhexEof
    \/ IhexStart
    \/ IhexEnd
    \/ LoadIhexDone

SpecLoad == LoadInit /\ [][LoadNext]_vars

----------------------------------------------------------------------------
(* src/lib.rs: parse_mcu and supported_mcus *)

\* alias name, MCU name
ALIASES ==
    << [alias |-> "TEENSY2",   name |-> "atmega32u4"],
       [alias |-> "TEENSY2PP", name |-> "at90usb1286"],
       [alias |-> "TEENSYLC",  name |-> "mkl26z64"],
       [alias |-> "TEENSY30",  name |-> "mk20dx128"],
       [alias |-> "TEENSY31",  name |-> "mk20dx256"],
       [alias |-> "TEENSY32",  name |-> "mk20dx256"],
       [alias |-> "TEENSY35",  name |-> "mk64fx512"],
       [alias |-> "TEENSY36",  name |-> "mk66fx1m0"] >>

\* MCUS.iter().filter(..).next(): the descriptor of the first entry named name
Lookup(name) ==
    LET found == { k \in 1..Len(MCUS) : MCUS[k].name = name }
    IN  IF found = {} THEN <<"None">> ELSE <<"Some", MCUS[SetMin(found)].mcu>>

\* a lookup with no alias substitution
parse_mcu_canonical_only(a) == Lookup(a)

\* the first alias entry matching the argument gives the name, else the argument
\* is the name
parse_mcu(a) ==
    LET hits == { i \in 1..Len(ALIASES) : ALIASES[i].alias = a }
        name == IF hits = {} THEN a ELSE ALIASES[SetMin(hits)].name
    IN  Lookup(name)

\* the aliases ahead of the canonical names
ChainAliasesFirst(i) ==
    IF i <= Len(ALIASES) THEN ALIASES[i].alias ELSE MCUS[i - Len(ALIASES)].name

\* item i of MCUS names chained with ALIASES names
Chain(i) ==
    IF i <= Len(MCUS) THEN MCUS[i].name ELSE ALIASES[i - Len(MCUS)].alias

ChainLen == Len(MCUS) + Len(ALIASES)

\* the names parse_mcu is given: every listed name, listed names in another
\* case, and names that are in no table
OtherCase ==
    { "AT90USB162", "ATMEGA32U4", "At90usb646", "AT90USB1286", "MKL26Z64",
      "MK20DX128", "Mk20dx256", "MK64FX512", "MK66FX1M0",
      "teensy2", "teensy2pp", "TeensyLC", "teensylc", "teensy30", "Teensy31",
      "teensy32", "teensy35", "teensy36" }
Unlisted == { "", "TEENSY", "TEENSY40", "TEENSY3", "mk20dx", "atmega328p", " TEENSY2" }
ArgNames ==
    { MCUS[k].name : k \in 1..Len(MCUS) }
        \cup { ALIASES[i].alias : i \in 1..Len(ALIASES) }
        \cup OtherCase \cup Unlisted

\* a call of parse_mcu(arg)
ParseMcu ==
    /\ parsed = <<"pending">>
    /\ parsed' = parse_mcu(arg)
    /\ UNCHANGED <<arg, names, ni>>
    /\ UNCHANGED <<sessVars, frameVars, ihexVars, elfVars, loadVars, mainVars, xferVars>>

\* collect() taking the next item of the chain
SupportedStep ==
    /\ ni <= ChainLen
    /\ names' = Append(names, Chain(ni))
    /\ ni' = ni + 1
    /\ UNCHANGED <<arg, parsed>>
    /\ UNCHANGED <<sessVars, frameVars, ihexVars, elfVars, loadVars, mainVars, xferVars>>

RegistryInit ==
    /\ arg \in ArgNames
    /\ parsed = <<"pending">>
    /\ names = << >>
    /\ ni = 1
    /\ NoSession /\ NoFrames /\ NoIhex /\ NoElf /\ NoLoad /\ NoMain /\ NoXfer

RegistryNext ==
    \/ ParseMcu
    \/ SupportedStep

SpecRegistry == RegistryInit /\ [][RegistryNext]_vars

----------------------------------------------------------------------------
(* src/main.rs: main, from the loading of the file to the end of the process *)

\* --mcu takes the names of supported_mcus(), so mcu is a registry descriptor
MainMcus == { MCUS[1].mcu, MCUS[5].mcu }

\* ConnectError, or a session
ConnectResults == {"Ok", "DeviceNotFound", "System"}

\* the flags clap lets through: --no-reboot requires the file, which conflicts
\* with --boot
MainFlags ==
    { f \in [boot_only : BOOLEAN, no_reboot : BOOLEAN, wait : BOOLEAN] :
        ~(f.boot_only /\ f.no_reboot) }

\* let binary = ..: None with --boot; otherwise the decoded image, or the process
\* exits on a file that cannot be opened, read or decoded, or panics in
\* elf32_to_bytes
MainLoad ==
    /\ mpc = "load"
    /\ IF boot_only
       THEN /\ mpc' = "connect"
            /\ UNCHANGED <<binary, has_binary>>
       ELSE \/ /\ mpc' \in {"exit1", "panicked"}
               /\ UNCHANGED <<binary, has_binary>>
            \/ /\ binary' \in Images(mcu.block_size)
               /\ has_binary' = TRUE
               /\ mpc' = "connect"
    /\ UNCHANGED <<wait_for_device, boot_only, no_reboot, waited, conns, released>>
    /\ UNCHANGED <<teensy, pc, idx, buf, log, returns, calls>>
    /\ UNCHANGED <<frameVars, ihexVars, elfVars, regVars, loadVars, xferVars>>

\* the connect loop retrying after every error
MainConnectRetriesAll ==
    /\ mpc = "connect"
    /\ Len(conns) < MaxConnects
    /\ \E r \in ConnectResults :
         /\ conns' = Append(conns, r)
         /\ IF r = "Ok"
            THEN teensy' = Connect(mcu) /\ mpc' = "program"
            ELSE IF ~wait_for_device
            THEN UNCHANGED teensy /\ mpc' = "exit1"
            ELSE UNCHANGED teensy /\ mpc' = "sleep"
    /\ UNCHANGED <<wait_for_device, boot_only, no_reboot, has_binary, waited, released>>
    /\ UNCHANGED <<binary, pc, idx, buf, log, returns, calls>>
    /\ UNCHANGED <<frameVars, ihexVars, elfVars, regVars, loadVars, xferVars>>

\* one turn of the connect loop: Teensy::connect(mcu) and the match on its result
MainConnect ==
    /\ mpc = "connect"
    /\ Len(conns) < MaxConnects
    /\ \E r \in ConnectResults :
         /\ conns' = Append(conns, r)
         /\ IF r = "Ok"
            THEN teensy' = Connect(mcu) /\ mpc' = "program"
            ELSE IF r = "DeviceNotFound" /\ ~wait_for_device
            THEN UNCHANGED teensy /\ mpc' = "exit1"
            ELSE IF r # "DeviceNotFound"
            THEN UNCHANGED teensy /\ mpc' = "exit1"
            ELSE UNCHANGED teensy /\ mpc' = "sleep"
    /\ UNCHANGED <<wait_for_device, boot_only, no_reboot, has_binary, waited, released>>
    /\ UNCHANGED <<binary, pc, idx, buf, log, returns, calls>>
    /\ UNCHANGED <<frameVars, ihexVars, elfVars, regVars, loadVars, xferVars>>

\* the tail of the loop body: the message, once, and sleep(250 ms)
MainSleep ==
    /\ mpc = "sleep"
    /\ waited' = TRUE
    /\ mpc' = "connect"
    /\ UNCHANGED <<wait_for_device, boot_only, no_reboot, has_binary, conns, released>>
    /\ UNCHANGED <<sessVars, frameVars, ihexVars, elfVars, regVars, loadVars, xferVars>>

\* if !boot_only { if let Some(binary) = binary { teensy.program(..) } }
MainProgram ==
    /\ mpc = "program"
    /\ IF ~boot_only /\ has_binary
       THEN ProgramEntry /\ mpc' = "programming"
       ELSE UNCHANGED sessVars /\ mpc' = "boot"
    /\ UNCHANGED <<wait_for_device, boot_only, no_reboot, has_binary, waited, conns, released>>
    /\ UNCHANGED <<frameVars, ihexVars, elfVars, regVars, loadVars, xferVars>>

\* the result of program() looked at only for the panic: boot() follows an error
MainProgramResultBoots ==
    /\ mpc = "programming"
    /\ pc = "idle"
    /\ LET ret == returns[Len(returns)].ret
       IN  IF ret[1] = "BinaryRemainder"
           THEN mpc' = "panicked" /\ released' \in {released, released + 1}
           ELSE mpc' = "boot" /\ UNCHANGED released
    /\ UNCHANGED <<wait_for_device, boot_only, no_reboot, has_binary, waited, conns>>
    /\ UNCHANGED <<sessVars, frameVars, ihexVars, elfVars, regVars, loadVars, xferVars>>

\* the match on what program() returned: BinaryRemainder panics, and the panic
\* drops the session when it unwinds and not when the build aborts on panic; the
\* other errors end the process with exit(1), which runs no destructor
MainProgramResult ==
    /\ mpc = "programming"
    /\ pc = "idle"
    /\ LET ret == returns[Len(returns)].ret
       IN  IF ret[1] = "Ok"
           THEN mpc' = "boot" /\ UNCHANGED released
           ELSE IF ret[1] = "BinaryRemainder"
           THEN mpc' = "panicked" /\ released' \in {released, released + 1}
           ELSE mpc' = "exit1" /\ UNCHANGED released
    /\ UNCHANGED <<wait_for_device, boot_only, no_reboot, has_binary, waited, conns>>
    /\ UNCHANGED <<sessVars, frameVars, ihexVars, elfVars, regVars, loadVars, xferVars>>

\* if !no-reboot || boot_only { teensy.boot() }
MainBoot ==
    /\ mpc = "boot"
    /\ IF ~no_reboot \/ boot_only
       THEN BootEntry /\ mpc' = "booting"
       ELSE UNCHANGED sessVars /\ mpc' = "end"
    /\ UNCHANGED <<wait_for_device, boot_only, no_reboot, has_binary, waited, conns, released>>
    /\ UNCHANGED <<frameVars, ihexVars, elfVars, regVars, loadVars, xferVars>>

\* if let Err(err) = teensy.boot() { ..; exit(1) }
MainBootResult ==
    /\ mpc = "booting"
    /\ mpc' = IF returns[Len(returns)].ret[1] = "Ok" THEN "end" ELSE "exit1"
    /\ UNCHANGED <<wait_for_device, boot_only, no_reboot, has_binary, waited, conns, released>>
    /\ UNCHANGED <<sessVars, frameVars, ihexVars, elfVars, regVars, loadVars, xferVars>>

\* main returns: its locals are dropped, the session among them
MainReturn ==
    /\ mpc = "end"
    /\ released' = released + 1
    /\ mpc' = "returned"
    /\ UNCHANGED <<wait_for_device, boot_only, no_reboot, has_binary, waited, conns>>
    /\ UNCHANGED <<sessVars, frameVars, ihexVars, elfVars, regVars, loadVars, xferVars>>

MainInit ==
    /\ mcu \in MainMcus
    /\ \E f \in MainFlags :
         /\ boot_only = f.boot_only
         /\ no_reboot = f.no_reboot
         /\ wait_for_device = f.wait
    /\ mpc = "load"
    /\ has_binary = FALSE
    /\ waited = FALSE
    /\ conns = << >>
    /\ released = 0
    /\ teensy = "None"
    /\ binary = << >>
    /\ pc = "idle"
    /\ idx = 0
    /\ buf = << >>
    /\ log = << >>
    /\ returns = << >>
    /\ calls = 0
    /\ recs = << >>
    /\ ri = 1
    /\ base_address = 0
    /\ bytes = << >>
    /\ len = 0
    /\ ires = <<"idle">>
    /\ NoFrames /\ NoElf /\ NoRegistry /\ NoLoad /\ NoXfer

MainNext ==
    \/ MainLoad
    \/ MainConnect
    \/ MainSleep
    \/ MainProgram
    \/ ProgramStep
    \/ ProgramFrame
    \/ ProgramWrite
    \/ MainProgramResult
    \/ MainBoot
    \/ MainBootResult
    \/ MainReturn

SpecMain == MainInit /\ [][MainNext]_vars

----------------------------------------------------------------------------
(* src/usb/libusb.rs and src/usb/windows.rs: write(buf, timeout), both run on one
   sequence of transfer outcomes. Time is counted in ticks of 10 ms, the length
   of the sleep between two attempts. *)

\* what one transfer attempt does: the whole buffer goes out, fewer bytes than
\* the buffer but at least one go out, the transfer times out, or it fails with
\* another system error
TransferKinds == {"complete", "short", "timeout", "error"}

\* an attempt and the ticks it takes when it does not time out
Outcome(k, t) == [kind |-> k, took |-> t]
Outcomes == { Outcome(k, t) : k \in TransferKinds, t \in {0, 1} }

\* time_left(begin, timeout)
time_left(now, timeout) == IF now < timeout THEN timeout - now ELSE 0

\* the ticks an attempt started at now lasts: a timed-out transfer lasts the
\* time that was left
Lasts(o, now, timeout) ==
    IF o.kind = "timeout"
    THEN time_left(now, timeout)
    ELSE Min(o.took, time_left(now, timeout))

\* time_left(begin, timeout) reads the clock after the loop condition did, and
\* the transfer gets it in whole milliseconds: in the last tick before the
\* deadline less than one millisecond may be left, and the transfer then gets 0
ZeroMillis(now, timeout) == IF now + 1 = timeout THEN BOOLEAN ELSE {FALSE}

\* libusb, one turn of the loop: write_control, the match on its result, the
\* length check and the sleep. A transfer timeout of 0 tells libusb to wait
\* without a limit: the attempt lasts as long as the device takes, and does not
\* return from a device that never answers
LibusbAttempt ==
    /\ lret = <<"running">>
    /\ ~lblocked
    /\ lnow < xtimeout
    /\ \E zero \in ZeroMillis(lnow, xtimeout) :
         LET o == outcomes[lpos]
             after == lnow + (IF zero THEN o.took ELSE Lasts(o, lnow, xtimeout))
         IN  IF zero /\ o.kind = "timeout"
             THEN lblocked' = TRUE /\ UNCHANGED <<lret, lnow>>
             ELSE /\ lblocked' = FALSE
                  /\ IF o.kind = "error"
                     THEN lret' = <<"System">> /\ lnow' = after
                     ELSE IF o.kind = "complete"
                     THEN lret' = <<"Ok">> /\ lnow' = after
                     ELSE lret' = lret /\ lnow' = after + 1
    /\ lpos' = lpos + 1
    /\ UNCHANGED <<xtimeout, outcomes, wpos, wnow, wret>>
    /\ UNCHANGED <<sessVars, frameVars, ihexVars, elfVars, regVars, loadVars, mainVars>>

\* libusb: the loop condition fails
LibusbDeadline ==
    /\ lret = <<"running">>
    /\ ~lblocked
    /\ lnow >= xtimeout
    /\ lret' = <<"Timeout">>
    /\ UNCHANGED <<xtimeout, outcomes, lpos, lnow, lblocked, wpos, wnow, wret>>
    /\ UNCHANGED <<sessVars, frameVars, ihexVars, elfVars, regVars, loadVars, mainVars>>

\* __write: Ok when at least one byte went out, an error otherwise
WinWrite(o) ==
    IF o.kind \in {"complete", "short"} THEN <<"Ok">>
    ELSE IF o.kind = "timeout" THEN <<"Timeout">>
    ELSE <<"System">>

\* __write with a timeout of 0: WaitForSingleObject returns at once, and a
\* transfer that is still pending is cancelled with Timeout
WinWriteZero(o) ==
    IF o.took > 0 /\ o.kind \in {"complete", "short"} THEN <<"Timeout">>
    ELSE WinWrite(o)

\* Windows, one turn of the loop: `if let Ok(_) = __write(..) { return Ok(()) }`
\* and the sleep
WindowsAttempt ==
    /\ wret = <<"running">>
    /\ wnow < xtimeout
    /\ \E zero \in ZeroMillis(wnow, xtimeout) :
         LET o == outcomes[wpos]
             res == IF zero THEN WinWriteZero(o) ELSE WinWrite(o)
             after == wnow + (IF zero THEN 0 ELSE Lasts(o, wnow, xtimeout))
         IN  IF res = <<"Ok">>
             THEN wret' = <<"Ok">> /\ wnow' = after
             ELSE wret' = wret /\ wnow' = after + 1
    /\ wpos' = wpos + 1
    /\ UNCHANGED <<xtimeout, outcomes, lpos, lnow, lret, lblocked>>
    /\ UNCHANGED <<sessVars, frameVars, ihexVars, elfVars, regVars, loadVars, mainVars>>

\* Windows: the loop condition fails
WindowsDeadline ==
    /\ wret = <<"running">>
    /\ wnow >= xtimeout
    /\ wret' = <<"Timeout">>
    /\ UNCHANGED <<xtimeout, outcomes, lpos, lnow, lret, lblocked, wpos, wnow>>
    /\ UNCHANGED <<sessVars, frameVars, ihexVars, elfVars, regVars, loadVars, mainVars>>

\* every turn of the loop lasts a tick or more, so xtimeout outcomes are enough
XferInit ==
    /\ xtimeout \in 0..MaxTicks
    /\ outcomes \in [1..xtimeout -> Outcomes]
    /\ lpos = 1
    /\ lnow = 0
    /\ lret = <<"running">>
    /\ lblocked = FALSE
    /\ wpos = 1
    /\ wnow = 0
    /\ wret = <<"running">>
    /\ NoSession /\ NoFrames /\ NoIhex /\ NoElf /\ NoRegistry /\ NoLoad /\ NoMain

XferNext ==
    \/ LibusbAttempt
    \/ LibusbDeadline
    \/ WindowsAttempt
    \/ WindowsDeadline

SpecXfer == XferInit /\ [][XferNext]_vars

\* the thread that called write() keeps running and the clock keeps advancing:
\* a step of write() that can be taken is taken
SpecXferFair == SpecXfer /\ WF_vars(XferNext)

----------------------------------------------------------------------------
(* Reading the log *)

\* the log entries of call c, in order
EventsOf(c) == SelectSeq(log, LAMBDA e : e.call = c)

Returned(c) == c <= Len(returns)

\* boot() is one step, so a call that has not returned is a program() call
IsProgram(c) == IF Returned(c) THEN returns[c].fn = "program" ELSE TRUE

ReturnedWith(c, f, tag) ==
    Returned(c) /\ returns[c].fn = f /\ returns[c].ret[1] = tag

\* block k is one the skip rule, as the specification states it, lets through
NonSkipped(k) ==
    k = 0 \/ \E j \in 1..teensy.block_size : binary[k * teensy.block_size + j] # 255

\* the number of blocks whose iteration call c has entered
Entered(c) ==
    IF Returned(c)
    THEN IF returns[c].ret[1] = "Ok" THEN ZipLen
         ELSE IF returns[c].ret[1] = "WriteError"
              THEN LET ev == EventsOf(c)
                   IN  (ev[Len(ev)].addr \div teensy.block_size) + 1
              ELSE 0
    ELSE IF pc = "loop" THEN idx ELSE idx + 1

----------------------------------------------------------------------------
(* C1: program() never hands the transport a block at a non-zero address whose
   bytes are all 0xFF, and every program() call that got past block 0 has written
   the block at address 0, whatever its content. *)
C1_SkipRule ==
    /\ \A i \in 1..Len(log) :
         (log[i].kind = "data" /\ log[i].addr # 0)
            => \E j \in 1..teensy.block_size : binary[log[i].addr + j] # 255
    /\ \A c \in 1..calls :
         (IsProgram(c) /\ Entered(c) >= 1 /\ (Returned(c) \/ pc = "loop"))
            => \E i \in 1..Len(log) :
                 log[i].kind = "data" /\ log[i].call = c /\ log[i].addr = 0

\* a finished program() of an image whose blocks 0 and 1 are both erased: block 0
\* was written, block 1 was not
C1_Witness ==
    /\ ReturnedWith(1, "program", "Ok")
    /\ ZipLen = 2
    /\ AllFF(Chunk(0)) /\ AllFF(Chunk(1))
    /\ \E i \in 1..Len(log) : log[i].kind = "data" /\ log[i].call = 1 /\ log[i].addr = 0
    /\ \A i \in 1..Len(log) : log[i].addr = 0

(* C2: for an image whose length is not a multiple of block_size, every program()
   call returns BinaryRemainder, and no data write and no feedback call is made. *)
C2_Remainder ==
    (Len(binary) % teensy.block_size # 0) =>
        /\ \A i \in 1..Len(log) : log[i].kind \notin {"data", "feedback"}
        /\ \A c \in 1..calls :
             IsProgram(c) => Returned(c) /\ returns[c].ret = <<"BinaryRemainder">>

\* program() has returned on an image of whole blocks plus a remainder
C2_Witness ==
    /\ Len(binary) % teensy.block_size # 0
    /\ Len(binary) > teensy.block_size
    /\ \E c \in 1..Len(returns) : returns[c].fn = "program"

(* C3: within one program() call the log is feedback(a1), write(a1), feedback(a2),
   write(a2), ...: each feedback is followed by the write of the same block and
   comes after the write of the previous one, the addresses are those of the
   non-skipped blocks the loop has entered, each once and in order, and no skipped
   block has a feedback call. *)
C3_Feedback ==
    \A c \in 1..calls :
        IsProgram(c) =>
            LET ev == EventsOf(c)
                bs == teensy.block_size
            IN  /\ \A i \in 1..Len(ev) :
                     IF i % 2 = 1
                     THEN /\ ev[i].kind = "feedback"
                          /\ ev[i].addr % bs = 0
                          /\ NonSkipped(ev[i].addr \div bs)
                          /\ i > 2 => ev[i].addr > ev[i - 2].addr
                     ELSE /\ ev[i].kind = "data"
                          /\ ev[i].addr = ev[i - 1].addr
                /\ \A k \in 0..(Entered(c) - 1) :
                     NonSkipped(k) =>
                        \E i \in 1..Len(ev) : ev[i].kind = "feedback" /\ ev[i].addr = k * bs

\* a finished program() over two blocks, the second one skipped: one feedback call
\* and one write, both for block 0
C3_Witness ==
    /\ ReturnedWith(1, "program", "Ok")
    /\ ZipLen = 2
    /\ ~AllFF(Chunk(0)) /\ AllFF(Chunk(1))
    /\ Len(EventsOf(1)) = 2

(* C4: a failed transport write ends program(): the call has returned
   WriteError carrying the write's error, and the failed write is the last thing
   the call did (no re-send, no later block, no later feedback). *)
C4_WriteAborts ==
    \A i \in 1..Len(log) :
        (log[i].kind = "data" /\ log[i].res # "Ok") =>
            /\ Returned(log[i].call)
            /\ returns[log[i].call] = Return("program", <<"WriteError", log[i].res>>)
            /\ \A j \in (i + 1)..Len(log) : log[j].call # log[i].call

\* the write of block 0 timed out while a non-skipped block 1 was still to come,
\* and the session went on to another call
C4_Witness ==
    /\ ZipLen = 2
    /\ ~AllFF(Chunk(1))
    /\ Len(log) >= 3
    /\ log[2].kind = "data" /\ log[2].addr = 0 /\ log[2].res = "Timeout"
    /\ log[3].call = 2

\* block sizes the frame construction knows
KnownBlockSize(bs) == bs <= 256 \/ bs = 512 \/ bs = 1024

(* C6: with a block size that is neither <= 256 nor 512 nor 1024, program() writes
   no frame and, where it would have built one, fails with UnknownBlockSize. *)
C6_UnknownBlockSize ==
    ~KnownBlockSize(teensy.block_size) =>
        /\ \A i \in 1..Len(log) : log[i].kind # "data"
        /\ \A c \in 1..Len(returns) :
             (returns[c].fn = "program" /\ ZipLen > 0 /\ ~HasRemainder)
                => returns[c].ret = <<"UnknownBlockSize", teensy.block_size>>

(* C7: every boot() call makes exactly one transport write, with a 500 ms timeout,
   of a buffer of block_size + header_size bytes: 0xFF 0xFF 0xFF, then zeros. *)
C7_BootFrame ==
    \A c \in 1..Len(returns) :
        returns[c].fn = "boot" =>
            LET ev == EventsOf(c)
            IN  /\ Len(ev) = 1
                /\ ev[1].kind = "boot"
                /\ ev[1].timeout = 500
                /\ Len(ev[1].buf) = teensy.block_size + teensy.header_size
                /\ \A j \in 1..Len(ev[1].buf) :
                     ev[1].buf[j] = IF j <= 3 THEN 255 ELSE 0

\* boot() after a program() that wrote a frame with the 64-byte header
C7_Witness ==
    /\ teensy.header_size = 64
    /\ ReturnedWith(1, "program", "Ok")
    /\ ReturnedWith(2, "boot", "Ok")
    /\ \E i \in 1..Len(log) : log[i].kind = "data"
    /\ \E i \in 1..Len(log) : log[i].kind = "boot"

----------------------------------------------------------------------------
\* the address of the frame in fbuf, once one is built
FrameAddr == fnext - fmcu.block_size

(* C5: with block_size = 256 and code_size = 130048, the frame program() builds for
   block address 0x10000 starts with the header bytes [0x00, 0x01]: (addr >> 8) as
   u8 is 0, (addr >> 16) as u8 is 1. *)
C5_Header ==
    (fmcu = Mcu(130048, 256) /\ fbuf # << >> /\ FrameAddr = 65536)
        => fbuf[1] = 0 /\ fbuf[2] = 1

\* the frame of block address 0x10000 of the at90usb1286 has been built
C5_Witness ==
    fmcu = Mcu(130048, 256) /\ fbuf # << >> /\ FrameAddr = 65536 /\ Len(fbuf) = 258

\* the claim as written: header bytes [0x01, 0x01]
C5_Original ==
    (fmcu = Mcu(130048, 256) /\ fbuf # << >> /\ FrameAddr = 65536)
        => fbuf[1] = 1 /\ fbuf[2] = 1

----------------------------------------------------------------------------
(* Reading a record sequence *)

IsBaseRecord(r) == r.type \in {"ExtendedSegmentAddress", "ExtendedLinearAddress"}

\* the base address in force at record j: that of the last base record before it
BaseBefore(j) ==
    LET S == { k \in 1..(j - 1) : IsBaseRecord(recs[k]) }
    IN  IF S = {} THEN 0
        ELSE LET r == recs[SetMax(S)]
             IN  IF r.type = "ExtendedSegmentAddress" THEN r.base * 16 ELSE r.base * 65536

\* the end address of data record j
EndOf(j) == BaseBefore(j) + recs[j].offset + Len(recs[j].value)

\* the index of the first End-Of-File record, or one past the last record
Stop ==
    LET eofs == { j \in 1..Len(recs) : recs[j].type = "EndOfFile" }
    IN  IF eofs = {} THEN Len(recs) + 1 ELSE SetMin(eofs)

\* the payload bytes of the data records among the first n records
RECURSIVE PayloadSum(_)
PayloadSum(n) ==
    IF n = 0 THEN 0
    ELSE PayloadSum(n - 1) + (IF recs[n].type = "Data" THEN Len(recs[n].value) ELSE 0)

\* the decode failed at the record it stands at, a data record, with its end address
FailedAtData ==
    /\ ri <= Len(recs)
    /\ recs[ri].type = "Data"
    /\ ires[2] = EndOf(ri)

(* C8: ihex_to_bytes fails with AddressTooHigh(end_address) exactly at a data
   record whose end address is >= code_size; every data record it has passed ends
   below code_size, and the one it passed last has its bytes in the image. A record
   whose end address is code_size - 1, its last byte at address code_size - 2, is
   passed. *)
C8_AddressTooHigh ==
    /\ ires[1] = "AddressTooHigh" => FailedAtData /\ EndOf(ri) >= mcu.code_size
    /\ \A j \in 1..(ri - 1) : recs[j].type = "Data" => EndOf(j) <= mcu.code_size - 1
    /\ (ri > 1 /\ recs[ri - 1].type = "Data") =>
          \A n \in 1..Len(recs[ri - 1].value) :
              bytes[BaseBefore(ri - 1) + recs[ri - 1].offset + n] = recs[ri - 1].value[n]

\* a decode that returned Ok after a data record ending at code_size - 1, above a
\* segment base: its last byte is at address code_size - 2, the last byte is erased
C8_Witness ==
    /\ ires = <<"Ok">>
    /\ ri > 1
    /\ recs[ri - 1].type = "Data"
    /\ BaseBefore(ri - 1) = 16
    /\ EndOf(ri - 1) = mcu.code_size - 1
    /\ bytes[mcu.code_size - 1] = 17
    /\ bytes[mcu.code_size] = 255

\* the claim as written: a data record whose last byte lands at address
\* code_size - 1 is decoded successfully
C8_Original ==
    /\ ires[1] = "AddressTooHigh" => FailedAtData /\ EndOf(ri) >= mcu.code_size
    /\ \A j \in 1..(ri - 1) : recs[j].type = "Data" => EndOf(j) <= mcu.code_size - 1
    /\ \A j \in 1..Len(recs) :
         (/\ recs[j].type = "Data"
          /\ recs[j].value # << >>
          /\ EndOf(j) - 1 = mcu.code_size - 1
          /\ j = ri)
            => ires[1] # "AddressTooHigh"

(* C9: the decode never goes past the first End-Of-File record: it stands at or
   before it, returns Ok there, never fails for a record after it, and written_len
   and every written byte of the image come from data records before it. *)
C9_EofStops ==
    /\ ri <= Stop
    /\ (ri = Stop /\ ires # <<"running">>) => ires = <<"Ok">>
    /\ len = PayloadSum(ri - 1)
    /\ \A a \in 1..Len(bytes) :
         bytes[a] # 255 =>
            \E j \in 1..(ri - 1) :
                /\ recs[j].type = "Data"
                /\ a - 1 >= BaseBefore(j) + recs[j].offset
                /\ a - 1 < EndOf(j)
                /\ bytes[a] = recs[j].value[a - BaseBefore(j) - recs[j].offset]

\* Ok at an End-Of-File record that follows a data record and is followed by a data
\* record out of range
C9_Witness ==
    /\ ires = <<"Ok">>
    /\ ri = 2 /\ Len(recs) = 3
    /\ recs[1].type = "Data"
    /\ recs[2].type = "EndOfFile"
    /\ recs[3].type = "Data"
    /\ EndOf(3) >= mcu.code_size
    /\ len = Len(recs[1].value)

(* C10: when both decoders have returned Ok for the two renderings of one program,
   the images have equal length and equal bytes, and written_len is equal. *)
C10_SameImage ==
    (ires = <<"Ok">> /\ eres = <<"Ok">>) =>
        /\ Len(bytes) = Len(data)
        /\ bytes = data
        /\ len = elf_len

\* address a is inside a data record the Intel HEX decoder has copied
IhexSupplied(a) ==
    \E j \in 1..(Min(ri, Stop) - 1) :
        /\ recs[j].type = "Data"
        /\ a >= BaseBefore(j) + recs[j].offset
        /\ a < EndOf(j)

\* address a is inside a section the ELF decoder has selected
ElfSupplied(a) ==
    \E k \in 1..Len(sections) :
        a >= sections[k].load_addr /\ a < sections[k].load_addr + sections[k].size

(* C11: an image returned by ihex_to_bytes or by elf32_to_bytes has length
   code_size, and each of its bytes at an address the file did not supply is 0xFF. *)
C11_ImageShape ==
    /\ ires = <<"Ok">> =>
         /\ Len(bytes) = mcu.code_size
         /\ \A a \in 0..(Len(bytes) - 1) : ~IhexSupplied(a) => bytes[a + 1] = 255
    /\ eres = <<"Ok">> =>
         /\ Len(data) = mcu.code_size
         /\ \A a \in 0..(Len(data) - 1) : ~ElfSupplied(a) => data[a + 1] = 255

(* C17: program() issues the write of the block at address 0 with a 5000 ms
   timeout and the write of a block at any other address with a 500 ms timeout. *)
C17_Timeouts ==
    \A i \in 1..Len(log) :
        log[i].kind = "data" =>
            log[i].timeout = (IF log[i].addr = 0 THEN 5000 ELSE 500)

\* one program() call has written the block at address 0 and then a later block
C17_Witness ==
    \E i, j \in 1..Len(log) :
        /\ log[i].kind = "data" /\ log[i].addr = 0 /\ log[i].timeout = 5000
        /\ log[j].kind = "data" /\ log[j].addr # 0 /\ log[j].timeout = 500
        /\ log[i].call = log[j].call

\* the descriptor the registry lists under a canonical name
DescriptorOf(name) ==
    MCUS[CHOOSE k \in 1..Len(MCUS) : MCUS[k].name = name].mcu

IsCanonical(a) == \E k \in 1..Len(MCUS) : MCUS[k].name = a
IsAlias(a) == \E i \in 1..Len(ALIASES) : ALIASES[i].alias = a

(* C16: parse_mcu of an alias returns the descriptor listed under the canonical
   name the alias maps to, which is what parse_mcu of that canonical name returns;
   parse_mcu of a name in neither table returns None. *)
C16_ParseMcu ==
    parsed # <<"pending">> =>
        /\ \A i \in 1..Len(ALIASES) :
             arg = ALIASES[i].alias =>
                /\ IsCanonical(ALIASES[i].name)
                /\ parsed = <<"Some", DescriptorOf(ALIASES[i].name)>>
                /\ parsed = parse_mcu(ALIASES[i].name)
        /\ (~IsCanonical(arg) /\ ~IsAlias(arg)) => parsed = <<"None">>

\* parse_mcu("TEENSY32") has returned the descriptor of mk20dx256
C16_Witness ==
    /\ arg = "TEENSY32"
    /\ parsed = <<"Some", Mcu(262144, 1024)>>

\* the names the test list_supported_mcus expects
expected_names ==
    << "at90usb162", "atmega32u4", "at90usb646", "at90usb1286", "mkl26z64",
       "mk20dx128", "mk20dx256", "mk64fx512", "mk66fx1m0",
       "TEENSY2", "TEENSY2PP", "TEENSYLC", "TEENSY30", "TEENSY31", "TEENSY32",
       "TEENSY35", "TEENSY36" >>

(* C18: supported_mcus() collects the canonical names in table order and then the
   alias names in table order: what it has collected is always a prefix of that
   list, and the finished list is the 17 names, the 9 canonical ones first. *)
C18_SupportedMcus ==
    /\ names = SubSeq(expected_names, 1, ni - 1)
    /\ ni > ChainLen =>
         /\ Len(names) = 17
         /\ \A k \in 1..9 : names[k] = MCUS[k].name
         /\ \A i \in 1..8 : names[9 + i] = ALIASES[i].alias

\* supported_mcus() has collected all its names
C18_Witness ==
    /\ ni > ChainLen
    /\ Len(names) = 17
    /\ names[9] = "mk66fx1m0"
    /\ names[10] = "TEENSY2"

(* C19: every registry descriptor has a block size of 128, 256, 512 or 1024 and a
   code size that is a whole number of blocks, and program() on an image of
   code_size bytes does not return BinaryRemainder. *)
C19_RegistryBlocks ==
    /\ \A k \in 1..Len(MCUS) :
         /\ MCUS[k].mcu.block_size \in {128, 256, 512, 1024}
         /\ MCUS[k].mcu.code_size % MCUS[k].mcu.block_size = 0
    /\ fres # <<"BinaryRemainder">>

\* program() has returned Ok for the image of atmega32u4, past its last block
C19_Witness ==
    /\ fmcu.block_size = 128
    /\ fmcu.code_size > 15872
    /\ fres = <<"Ok">>
    /\ fnext = fmcu.code_size

\* the file is an ELF32 that passes the checks of load_file
ChecksPassed == file.elf[1] = "Elf32" /\ PassesChecks(file.elf[2])

\* the file has no PROGBITS section with the ALLOC flag
NoLoadableSection ==
    ~\E k \in 1..Len(file.elf[2].sections) :
        /\ file.elf[2].sections[k].sh_type = "SHT_PROGBITS"
        /\ file.elf[2].sections[k].alloc

(* C12: when load_file has ended on a readable file that is an ELF32 passing the
   header and program-header checks with no PROGBITS/ALLOC section, under a hint
   that permits ELF, it did not abort: under hint Any it went on to the Intel HEX
   decoder, and under hint ELF it returned NotValidFile. *)
C12_NoSectionRejects ==
    (lpc = "done" /\ file.io = "ok" /\ hint # "IHEX" /\ ChecksPassed /\ NoLoadableSection) =>
        /\ lres # <<"panic">>
        /\ hint = "Any" => tried = <<"elf", "ihex">>
        /\ hint = "ELF" => lres = <<"NotValidFile">>

\* the ELF decoder rejects the file, as the specification lists the rejections
ElfRejects == ~ChecksPassed \/ NoLoadableSection

\* the Intel HEX decoder rejects the file: the reader fails, or a data record
\* ahead of the first End-Of-File record ends at or above code_size
IhexRejects ==
    \/ file.ihex[1] # "Ok"
    \/ LET r == file.ihex[2]
           eofs == { j \in 1..Len(r) : r[j].type = "EndOfFile" }
           stop == IF eofs = {} THEN Len(r) + 1 ELSE SetMin(eofs)
       IN  \E j \in 1..(stop - 1) :
              /\ r[j].type = "Data"
              /\ LET S == { k \in 1..(j - 1) : IsBaseRecord(r[k]) }
                     base == IF S = {} THEN 0
                             ELSE IF r[SetMax(S)].type = "ExtendedSegmentAddress"
                                  THEN r[SetMax(S)].base * 16
                                  ELSE r[SetMax(S)].base * 65536
                 IN  base + r[j].offset + Len(r[j].value) >= mcu.code_size

(* C13: load_file attempts the decoders in the order the hint fixes (IHEX: never
   ELF; ELF: never Intel HEX; Any: ELF, then Intel HEX only after ELF rejected),
   and once it has ended on a readable file its result is NotValidFile exactly
   when every permitted decoder rejects, and otherwise the image of the first
   permitted decoder that accepts. *)
C13_DecoderOrder ==
    /\ hint = "IHEX" => tried \in { << >>, <<"ihex">> }
    /\ hint = "ELF" => tried \in { << >>, <<"elf">> }
    /\ hint = "Any" => tried \in { << >>, <<"elf">>, <<"elf", "ihex">> }
    /\ (hint = "Any" /\ tried = <<"elf", "ihex">>) => ElfRejects
    /\ (lpc = "done" /\ file.io = "ok") =>
         LET elfOut == hint = "IHEX" \/ ElfRejects
             ihexOut == hint = "ELF" \/ IhexRejects
         IN  /\ lres = <<"NotValidFile">> <=> (elfOut /\ ihexOut)
             /\ ~elfOut => lres = <<"Ok", data, elf_len>> /\ tried = <<"elf">>
             /\ (elfOut /\ ~ihexOut) => lres = <<"Ok", bytes, len>>

\* the process has ended
Ended == mpc \in {"returned", "exit1", "panicked"}

(* C14: every connect() result but the last is DeviceNotFound, got in wait mode;
   a DeviceNotFound without wait mode, and any other error in either mode, is the
   last connect() result of the run, which has ended as a failure with no write
   to the device. *)
C14_ConnectLoop ==
    \A i \in 1..Len(conns) :
        /\ i < Len(conns) => (conns[i] = "DeviceNotFound" /\ wait_for_device)
        /\ (conns[i] = "System" \/ (conns[i] = "DeviceNotFound" /\ ~wait_for_device)) =>
             /\ i = Len(conns)
             /\ mpc = "exit1"
             /\ log = << >>
             /\ calls = 0

\* in wait mode the second connect() came after a DeviceNotFound and failed with
\* a system error, which ended the run
C14_Witness ==
    /\ wait_for_device
    /\ waited
    /\ conns = <<"DeviceNotFound", "System">>
    /\ mpc = "exit1"

\* the run obtained a session
ObtainedSession == Len(conns) > 0 /\ conns[Len(conns)] = "Ok"

(* C15: when the process has ended after obtaining a session, the session's
   device handle has been released exactly once. *)
C15_ReleasedOnce ==
    (Ended /\ ObtainedSession) => released = 1

\* what the write contract gives for the attempts a backend made, the last of
\* them being attempt n: Ok when it completed, System when it failed with a
\* system error other than a timeout, Timeout otherwise
Contract(n) ==
    IF n >= 1 /\ outcomes[n].kind = "complete" THEN <<"Ok">>
    ELSE IF n >= 1 /\ outcomes[n].kind = "error" THEN <<"System">>
    ELSE <<"Timeout">>

(* C20: once write() has returned in both backends on one sequence of transfer
   outcomes, the two results are equal, and each is what the contract gives:
   Ok for a completed transfer, System for a transfer that failed with a
   non-timeout system error, Timeout when the deadline passed. *)
C20_SameContract ==
    (lret # <<"running">> /\ wret # <<"running">>) =>
        /\ lret = wret
        /\ lret = Contract(lpos - 1)
        /\ wret = Contract(wpos - 1)

(* C21: every data frame program() has written is header_size + block_size bytes
   long, header_size being the one connect() derived; its bytes after the header
   are the image bytes of the block at the frame's address; and with the 64-byte
   header, bytes 0..2 are the address, low byte first, and bytes 3..63 are zero. *)
C21_DataFrame ==
    \A i \in 1..Len(log) :
        log[i].kind = "data" =>
            LET f == log[i].buf
                a == log[i].addr
                hs == teensy.header_size
            IN  /\ hs = (IF teensy.block_size \in {512, 1024} THEN 64 ELSE 2)
                /\ Len(f) = hs + teensy.block_size
                /\ \A j \in 1..teensy.block_size : f[hs + j] = binary[a + j]
                /\ hs = 64 =>
                     /\ f[1] = a % 256
                     /\ f[2] = (a \div 256) % 256
                     /\ f[3] = (a \div 65536) % 256
                     /\ \A j \in 4..64 : f[j] = 0

\* call c made a write that failed
WriteFailed(c) ==
    \E i \in 1..Len(log) : log[i].call = c /\ log[i].kind = "data" /\ log[i].res # "Ok"

(* C26: the addresses of the data frames of one program() call are multiples of
   block_size, strictly increasing, and below both code_size and the length of
   the image; a program() call on an image of whole blocks all of whose writes
   succeed returns Ok, also when the image is longer than code_size. *)
C26_Addresses ==
    /\ \A i \in 1..Len(log) :
         log[i].kind = "data" =>
            /\ log[i].addr % teensy.block_size = 0
            /\ log[i].addr < teensy.code_size
            /\ log[i].addr + teensy.block_size <= Len(binary)
            /\ \A j \in 1..(i - 1) :
                 (log[j].kind = "data" /\ log[j].call = log[i].call)
                    => log[j].addr < log[i].addr
    /\ \A c \in 1..Len(returns) :
         (returns[c].fn = "program" /\ Len(binary) % teensy.block_size = 0 /\ ~WriteFailed(c))
            => returns[c].ret = <<"Ok">>

\* program() has returned Ok on an image of two blocks, the second one not
\* erased, for a code_size of one block: only the block at address 0 was written
C26_Witness ==
    /\ teensy.code_size = teensy.block_size
    /\ Len(binary) = 2 * teensy.block_size
    /\ binary[Len(binary)] # 255
    /\ ReturnedWith(1, "program", "Ok")
    /\ Len(EventsOf(1)) = 2
    /\ \A i \in 1..Len(log) : log[i].addr = 0

\* the block address a bootloader reads out of the header of the frame in fbuf
HeaderAddress ==
    IF fmcu.block_size <= 256
    THEN IF fmcu.code_size < 65536
         THEN fbuf[1] + 256 * fbuf[2]
         ELSE (fbuf[1] + 256 * fbuf[2]) * 256
    ELSE fbuf[1] + 256 * fbuf[2] + 65536 * fbuf[3]

(* C27: for every registry MCU and every block address below its code_size, the
   block address is recovered from the header of the frame program() builds, so
   no two block addresses of one MCU share a header. *)
C27_HeaderLossless ==
    fbuf # << >> => HeaderAddress = FrameAddr

\* the frame of the last block of the mk20dx128, at address 0x1FC00, has been built
C27_Witness ==
    /\ fmcu = Mcu(131072, 1024)
    /\ fbuf # << >>
    /\ FrameAddr = 130048
    /\ fbuf[1] = 0 /\ fbuf[2] = 252 /\ fbuf[3] = 1

\* the data records ahead of the first End-Of-File record that cover address a
Covering(a) ==
    { j \in 1..(Stop - 1) :
        /\ recs[j].type = "Data"
        /\ a >= BaseBefore(j) + recs[j].offset
        /\ a < EndOf(j) }

(* C22: when ihex_to_bytes has returned Ok, the image byte at every address a is
   the payload byte of the last data record ahead of End-Of-File that covers a,
   at the base address the last Extended Segment or Extended Linear record
   before it set (value << 4, value << 16, 0 when there is none), or 0xFF when no
   record covers a; written_len is the sum of the payload lengths of the data
   records ahead of End-Of-File; Start Address records count for nothing. *)
C22_IhexImage ==
    ires = <<"Ok">> =>
        /\ Len(bytes) = mcu.code_size
        /\ \A a \in 0..(mcu.code_size - 1) :
             IF Covering(a) = {}
             THEN bytes[a + 1] = 255
             ELSE LET j == SetMax(Covering(a))
                  IN  bytes[a + 1] = recs[j].value[a - (BaseBefore(j) + recs[j].offset) + 1]
        /\ len = PayloadSum(Stop - 1)

\* an accepted sequence: a segment base of 16, a data record at 16..17 and one
\* that overwrites address 16; written_len counts 3 bytes
C22_Witness ==
    /\ ires = <<"Ok">>
    /\ recs = << ExtendedSegmentAddress(1), Data(0, <<34, 255>>), Data(0, <<17>>) >>
    /\ bytes[17] = 17 /\ bytes[18] = 255 /\ bytes[16] = 255
    /\ len = 3

\* the PROGBITS/ALLOC section headers of the file, in file order
Selected == SelectSeq(elf.sections, LAMBDA sh : sh.sh_type = "SHT_PROGBITS" /\ sh.alloc)

\* the load address of a section header as the claim gives it
LoadAddress(sh) ==
    LET C == { p \in 1..Len(elf.phdrs) :
                 /\ sh.addr >= elf.phdrs[p].vaddr
                 /\ sh.addr + sh.size <= elf.phdrs[p].vaddr + elf.phdrs[p].memsz }
    IN  IF C = {} THEN sh.addr
        ELSE LET p == CHOOSE p \in C : \A q \in C : p <= q
             IN  sh.addr - elf.phdrs[p].vaddr + elf.phdrs[p].paddr

\* the sizes of the first n selected section headers, added up
RECURSIVE SizeSum(_)
SizeSum(n) == IF n = 0 THEN 0 ELSE SizeSum(n - 1) + Selected[n].size

(* C23: the sections elf32_to_bytes has selected are the PROGBITS/ALLOC sections,
   each with load address addr - vaddr + paddr of the first program header whose
   range contains it whole, or its own address when none does; the image it
   returns is max(load address + size) - min(load address) bytes long, holds each
   section's bytes at load address - min(load address), and written_len is the
   sum of the section sizes. *)
C23_ElfImage ==
    /\ eres \in {<<"copy">>, <<"Ok">>} =>
         /\ Len(sections) = Len(Selected)
         /\ \A k \in 1..Len(sections) :
              /\ sections[k].shdr = Selected[k]
              /\ sections[k].size = Selected[k].size
              /\ sections[k].load_addr = LoadAddress(Selected[k])
    /\ eres = <<"Ok">> =>
         LET lo == SetMin({ LoadAddress(Selected[k]) : k \in 1..Len(Selected) })
             hi == SetMax({ LoadAddress(Selected[k]) + Selected[k].size : k \in 1..Len(Selected) })
         IN  /\ Len(data) = hi - lo
             /\ \A k \in 1..Len(Selected) :
                  \A n \in 1..Selected[k].size :
                      data[LoadAddress(Selected[k]) - lo + n] = Selected[k].segment[n]
             /\ elf_len = SizeSum(Len(Selected))

\* a decoded file of two sections and two program headers that both contain the
\* section at 4: it is loaded at 10 through the first one, the section at 0 at
\* 2 through the second one
C23_Witness ==
    /\ lres[1] = "Ok"
    /\ tried = <<"elf">>
    /\ elf.phdrs = << Phdr("LOAD", 4, 10, 2), Phdr("LOAD", 0, 2, 8) >>
    /\ Len(sections) = 2
    /\ sections[1].load_addr = 10 /\ sections[2].load_addr = 2
    /\ data = <<17, 0, 0, 0, 0, 0, 0, 0, 34, 51>>
    /\ elf_len = 3

(* C24: in a run of main, nothing is written before a connect() has returned Ok;
   every data frame is written ahead of the boot frame; a boot frame is written
   only when program(), if called, returned Ok; with --boot no data frame is
   written; with --no-reboot and without --boot no boot frame is written. *)
C24_FlowOrder ==
    /\ log # << >> => ObtainedSession
    /\ \A i, j \in 1..Len(log) :
         (log[i].kind = "boot" /\ log[j].kind = "data") => j < i
    /\ (\E i \in 1..Len(log) : log[i].kind = "boot") =>
         \A c \in 1..Len(returns) :
            returns[c].fn = "program" => returns[c].ret = <<"Ok">>
    /\ boot_only => \A i \in 1..Len(log) : log[i].kind # "data"
    /\ (no_reboot /\ ~boot_only) => \A i \in 1..Len(log) : log[i].kind # "boot"

\* a full run: connected at the second attempt, two blocks written, then the
\* boot frame, and main returned
C24_Witness ==
    /\ mpc = "returned"
    /\ ~boot_only /\ ~no_reboot
    /\ conns = <<"DeviceNotFound", "Ok">>
    /\ Len(log) = 5
    /\ log[2].kind = "data" /\ log[4].kind = "data" /\ log[5].kind = "boot"
    /\ returns[1] = Return("program", <<"Ok">>)
    /\ returns[2] = Return("boot", <<"Ok">>)

WriteReturns == { <<"Ok">>, <<"System">>, <<"Timeout">> }

(* C25: every call of write() returns, in both backends, and what it returns is
   Ok, a system error or Timeout; a call with a zero timeout returns Timeout
   without a transfer attempt. *)
C25_WriteTerminates ==
    /\ <>(lret \in WriteReturns /\ wret \in WriteReturns)
    /\ [](lret \in WriteReturns \cup { <<"running">> })
    /\ [](wret \in WriteReturns \cup { <<"running">> })
    /\ []((xtimeout = 0 /\ lret # <<"running">>) => (lret = <<"Timeout">> /\ lpos = 1))
    /\ []((xtimeout = 0 /\ wret # <<"running">>) => (wret = <<"Timeout">> /\ wpos = 1))

====
